---- MODULE Spec2Model ----
(***************************************************************************)
(* Job lifecycle of the Formatly document-formatting service.              *)
(*                                                                         *)
(* Two server modules exist side by side: src/api.py (real pipeline,       *)
(* process_document_task) and src/main.py (simulated pipeline,             *)
(* simulate_processing; src/app/api/upload-complete.py is a copy of its    *)
(* upload-complete handler).  The variable app fixes which of the two is   *)
(* deployed.  Both keep Job Records in the Supabase table "documents" and  *)
(* objects in the Supabase bucket "documents".                             *)
(*                                                                         *)
(* The server is one asyncio event loop (uvicorn.run(app, ...)).  The       *)
(* Supabase calls are blocking calls and update_document_status never      *)
(* suspends, so a request handler runs to completion: each handler is one  *)
(* action.  A background task gives up the loop only where it awaits a     *)
(* future: loop.run_in_executor in process_document_task, asyncio.sleep in *)
(* simulate_processing.  The variable running names the task that holds    *)
(* the loop between two such points; its collaborator calls are separate   *)
(* steps that nothing but the client's upload to the bucket interleaves.   *)
(***************************************************************************)
EXTENDS Integers, Sequences, FiniteSets, TLC

\* Bounds of the model.
MaxJobs == 2
MaxTasks == 2
MaxRequests == 3
MaxPhrases == 3

\* 100 * 1024 * 1024, the size ceiling of main.py.
MaxFileSize == 104857600

Users == {"A", "B"}
JobIds == 1 .. MaxJobs
Apps == {"api", "main"}

VARIABLES
    app,        \* which server module is deployed: "api" or "main"
    documents,  \* the table "documents": job id -> Job Record
    storage,    \* the bucket "documents": the set of handles holding an object
    tasks,      \* the background tasks created with asyncio.create_task
    issued,     \* how many job ids uuid4 has produced
    signed,     \* the job ids whose signed upload URL was returned to a client
    requests,   \* how many requests the server has handled
    running,    \* the task that holds the event loop, 0 when none does
    response    \* the outcome of the request handled by the last step, if any

vars == <<app, documents, storage, tasks, issued, signed, requests, running, response>>

----------------------------------------------------------------------------
\* Storage handles.

\* unique_filename = documents/{user_id}/{timestamp}_{uuid4}.{ext}: one per job.
InputPath(j) == <<"documents", j>>

\* file_path = legacy/{user_id}/{job_id}.docx (api), legacy/{job_id} (main).
LegacyPath(j) == <<"legacy", j>>

\* The result handle as it would be if it did not depend on the job.
ResultPath_shared(j) == <<"formatted", 0>>

\* result_filename = formatted/{job_id}.docx
ResultPath(j) == <<"formatted", j>>

\* A column that was never written (None).
NoUrl == <<>>

\* The argument progress=None.
NoProgress == -1

\* The argument processing_log=None, and a processing_log column never written.
EmptyLog == [k \in {} |-> 0]

\* The in-memory dict of main.py; nothing ever inserts into it.
jobs_storage == {}

----------------------------------------------------------------------------
\* Messages are sequences of phrases; a raw failure text of a collaborator is
\* the sequence of the phrases it is made of.

MalformedMsg == <<"Formatting failed: AI response was malformed. Please try again.">>
ConnectionLostMsg == <<"Formatting failed: Connection to AI server lost. Please try again.">>
ApiUploadFailedMsg == <<"Upload failed">>
MainUploadFailedMsg == <<"File upload failed">>
ObjectNotFoundText == <<"Object not found">>
UploadUrlFailedText == <<"Failed to generate upload URL">>
RecordFailedText == <<"Failed to create document record">>
NegativeSizeText == <<"File size must be non-negative">>
SizeExceedsText == <<"File size exceeds maximum limit of 100MB">>

Contains(text, phrase) == \E i \in 1 .. Len(text) : text[i] = phrase

\* The texts str(e) of the failures a run meets.
RawFailures ==
    { <<"JSON Parsing Error", "line 1">>,
      <<"Rate limit exceeded">> }

\* The phrases a failure text is made of: the four the except branch of
\* process_document_task looks for, and one it does not know.
Phrases ==
    { "JSON Parsing Error", "Unexpected end of input",
      "peer closed connection", "incomplete chunked read",
      "Rate limit exceeded" }

\* The failure texts of up to MaxPhrases phrases.
FailureTexts == UNION { [1 .. n -> Phrases] : n \in 1 .. MaxPhrases }

\* The except branch as it would be with its two tests in the other order.
ClassifyError_connection_first(error_msg) ==
    IF Contains(error_msg, "peer closed connection") \/ Contains(error_msg, "incomplete chunked read")
    THEN ConnectionLostMsg
    ELSE IF Contains(error_msg, "JSON Parsing Error") \/ Contains(error_msg, "Unexpected end of input")
         THEN MalformedMsg
         ELSE error_msg

\* error_msg of the except branch of process_document_task.
ClassifyError(error_msg) ==
    IF Contains(error_msg, "JSON Parsing Error") \/ Contains(error_msg, "Unexpected end of input")
    THEN MalformedMsg
    ELSE IF Contains(error_msg, "peer closed connection") \/ Contains(error_msg, "incomplete chunked read")
         THEN ConnectionLostMsg
         ELSE error_msg

----------------------------------------------------------------------------
\* The table "documents".

\* document_data as it would be with a status outside the four of the table.
NewDocument_pending(user_id, file_path) ==
    [ user_id |-> user_id,
      status |-> "pending",
      storage_location |-> file_path,
      processing_log |-> EmptyLog,
      result_url |-> NoUrl ]

\* document_data of create_document_record.
NewDocument(user_id, file_path) ==
    [ user_id |-> user_id,
      status |-> "draft",
      storage_location |-> file_path,
      processing_log |-> EmptyLog,
      result_url |-> NoUrl ]

\* select("*").eq("id", job_id).eq("user_id", user["user_id"]) returns a row.
Owned(u, j) == j \in DOMAIN documents /\ documents[j].user_id = u

\* processing_log.get("progress", 0)
Progress(doc) ==
    IF "progress" \in DOMAIN doc.processing_log THEN doc.processing_log.progress ELSE 0

\* processing_log.get("error") is set.
HasError(doc) == "error" \in DOMAIN doc.processing_log

\* update_document_status as it would be without .eq("id", job_id): the
\* update reaches every row.
api_update_document_status_every_row(docs, job_id, status, progress, processing_log, result_url, execute_ok) ==
    IF job_id \notin DOMAIN docs \/ ~execute_ok THEN docs
    ELSE [k \in DOMAIN docs |->
            [docs[k] EXCEPT !.status = status,
                            !.processing_log =
                                IF progress # NoProgress
                                THEN [progress |-> progress] @@ processing_log
                                ELSE @,
                            !.result_url = IF result_url # NoUrl THEN result_url ELSE @]]

\* api.py update_document_status: the row of job_id, if any, gets the status,
\* the processing_log only when a progress is given (overwriting the column),
\* and the result_url only when one is given.  The body is one try block whose
\* except clause only logs: when .execute() raises (execute_ok is FALSE) the
\* table is as before and the caller is not told.
api_update_document_status(docs, job_id, status, progress, processing_log, result_url, execute_ok) ==
    IF job_id \notin DOMAIN docs \/ ~execute_ok THEN docs
    ELSE [docs EXCEPT ![job_id] =
            [@ EXCEPT !.status = status,
                      !.processing_log =
                          IF progress # NoProgress
                          THEN [progress |-> progress] @@ processing_log
                          ELSE @,
                      !.result_url = IF result_url # NoUrl THEN result_url ELSE @]]

\* main.py update_document_status: as above, without a result_url.
main_update_document_status(docs, job_id, status, progress, processing_log, execute_ok) ==
    IF job_id \notin DOMAIN docs \/ ~execute_ok THEN docs
    ELSE [docs EXCEPT ![job_id] =
            [@ EXCEPT !.status = status,
                      !.processing_log =
                          IF progress # NoProgress
                          THEN [progress |-> progress] @@ processing_log
                          ELSE @]]

----------------------------------------------------------------------------
\* Responses.

\* api.py: every handler body is wrapped in "except Exception as e: raise
\* HTTPException(status_code=500, ...)", and HTTPException is an Exception, so
\* a 404 or 400 raised inside the body leaves the handler as a 500.
api_raise(status_code) == 500

\* main.py: "except HTTPException: raise" lets the status code through.
main_raise(status_code) == status_code

\* The last step was not a request.
NoResponse == [op |-> "none", code |-> 0]

api_failure(op, status_code) == [op |-> op, code |-> api_raise(status_code)]

main_failure(op, status_code) == [op |-> op, code |-> main_raise(status_code)]

----------------------------------------------------------------------------
Init ==
    /\ app \in Apps
    /\ documents = [j \in {} |-> 0]
    /\ storage = {}
    /\ tasks = <<>>
    /\ issued = 0
    /\ signed = {}
    /\ requests = 0
    /\ running = 0
    /\ response = NoResponse

\* The server handles one more request.
Request ==
    /\ running = 0
    /\ requests < MaxRequests
    /\ requests' = requests + 1
    /\ running' = running

\* job_id = str(uuid.uuid4()): an id no job has had.
FreshJobId == issued + 1

\* asyncio.create_task(process_document_task(job_id, file_path, ...))
api_create_task(j, file_path, origin) ==
    Append(tasks, [job |-> j, file_path |-> file_path, origin |-> origin, pc |-> "fetch",
                   temp_dir |-> FALSE])

\* asyncio.create_task(simulate_processing(job_id))
main_create_task(j, origin) ==
    Append(tasks, [job |-> j, file_path |-> NoUrl, origin |-> origin, pc |-> "sleep1",
                   temp_dir |-> FALSE])

\* The users that may create the next job.  The code compares user ids for
\* equality only, so the users are interchangeable and the one that makes the
\* first creating request is called "A".
Creators == IF issued = 0 THEN {"A"} ELSE Users

\* The values file_size takes: absent (<<>>) or <<n>>.
FileSizes == { <<>>, <<-1>>, <<MaxFileSize>>, <<MaxFileSize + 1>> }

\* The handles a client names as file_path in its upload-complete call.  The
\* handler takes whatever text the request carries; the model draws it from the
\* input handles of the job ids in use.
ClientPaths == { InputPath(j) : j \in 1 .. issued }

----------------------------------------------------------------------------
\* Upload Coordinator.

\* create_upload_url as it would be if a failing insert were only logged, the
\* way process_document treats its failing upload: the credential is returned
\* with no record behind it.
api_create_upload_url_insert_unchecked(u, file_size, url_ok, insert_ok) ==
    /\ app = "api"
    /\ Request
    /\ issued < MaxJobs
    /\ issued' = issued + 1
    /\ UNCHANGED <<app, storage, tasks>>
    /\ IF ~url_ok
       THEN /\ response' = api_failure("create_upload", 500) @@ [detail |-> UploadUrlFailedText]
            /\ UNCHANGED <<documents, signed>>
       ELSE /\ documents' = IF insert_ok
                            THEN documents @@ (FreshJobId :> NewDocument(u, InputPath(FreshJobId)))
                            ELSE documents
            /\ signed' = signed \cup {FreshJobId}
            /\ response' = [ op |-> "create_upload", code |-> 200, success |-> TRUE,
                             job_id |-> FreshJobId, file_path |-> InputPath(FreshJobId) ]

\* create_upload_url as it would be with its two steps in the other order: the
\* record is inserted first, and stays when the signed upload URL then fails.
main_create_upload_url_record_first(u, file_size, url_ok, insert_ok) ==
    /\ app = "main"
    /\ Request
    /\ issued < MaxJobs
    /\ issued' = issued + 1
    /\ UNCHANGED <<app, storage, tasks>>
    /\ IF file_size # <<>> /\ (file_size[1] < 0 \/ file_size[1] > MaxFileSize)
       THEN /\ response' = main_failure("create_upload", 400)
                             @@ [detail |-> IF file_size[1] < 0 THEN NegativeSizeText
                                                                ELSE SizeExceedsText]
            /\ UNCHANGED <<documents, signed>>
       ELSE IF ~insert_ok
       THEN /\ response' = main_failure("create_upload", 500) @@ [detail |-> RecordFailedText]
            /\ UNCHANGED <<documents, signed>>
       ELSE IF ~url_ok
       THEN /\ response' = main_failure("create_upload", 500) @@ [detail |-> UploadUrlFailedText]
            /\ documents' = documents @@ (FreshJobId :> NewDocument(u, InputPath(FreshJobId)))
            /\ signed' = signed
       ELSE /\ documents' = documents @@ (FreshJobId :> NewDocument(u, InputPath(FreshJobId)))
            /\ signed' = signed \cup {FreshJobId}
            /\ response' = [ op |-> "create_upload", code |-> 200, success |-> TRUE,
                             job_id |-> FreshJobId, file_path |-> InputPath(FreshJobId) ]

\* api.py create_upload_url: signed upload URL, then the record; no size check.
api_create_upload_url(u, file_size, url_ok, insert_ok) ==
    /\ app = "api"
    /\ Request
    /\ issued < MaxJobs
    /\ issued' = issued + 1
    /\ UNCHANGED <<app, storage, tasks>>
    /\ IF ~url_ok
       THEN /\ response' = api_failure("create_upload", 500) @@ [detail |-> UploadUrlFailedText]
            /\ UNCHANGED <<documents, signed>>
       ELSE IF ~insert_ok
       THEN /\ response' = api_failure("create_upload", 500) @@ [detail |-> RecordFailedText]
            /\ UNCHANGED <<documents, signed>>
       ELSE /\ documents' = documents @@ (FreshJobId :> NewDocument(u, InputPath(FreshJobId)))
            /\ signed' = signed \cup {FreshJobId}
            /\ response' = [ op |-> "create_upload", code |-> 200, success |-> TRUE,
                             job_id |-> FreshJobId, file_path |-> InputPath(FreshJobId) ]

\* main.py create_upload_url: size check, signed upload URL, then the record.
main_create_upload_url(u, file_size, url_ok, insert_ok) ==
    /\ app = "main"
    /\ Request
    /\ issued < MaxJobs
    /\ issued' = issued + 1
    /\ UNCHANGED <<app, storage, tasks>>
    /\ IF file_size # <<>> /\ (file_size[1] < 0 \/ file_size[1] > MaxFileSize)
       THEN /\ response' = main_failure("create_upload", 400)
                             @@ [detail |-> IF file_size[1] < 0 THEN NegativeSizeText
                                                                ELSE SizeExceedsText]
            /\ UNCHANGED <<documents, signed>>
       ELSE IF ~url_ok
       THEN /\ response' = main_failure("create_upload", 500) @@ [detail |-> UploadUrlFailedText]
            /\ UNCHANGED <<documents, signed>>
       ELSE IF ~insert_ok
       THEN /\ response' = main_failure("create_upload", 500) @@ [detail |-> RecordFailedText]
            /\ UNCHANGED <<documents, signed>>
       ELSE /\ documents' = documents @@ (FreshJobId :> NewDocument(u, InputPath(FreshJobId)))
            /\ signed' = signed \cup {FreshJobId}
            /\ response' = [ op |-> "create_upload", code |-> 200, success |-> TRUE,
                             job_id |-> FreshJobId, file_path |-> InputPath(FreshJobId) ]

\* The client PUTs its file to the signed upload URL it was given for the job.
client_upload(j) ==
    /\ j \in signed
    /\ InputPath(j) \notin storage
    /\ storage' = storage \cup {InputPath(j)}
    /\ response' = NoResponse
    /\ UNCHANGED <<app, documents, tasks, issued, signed, requests, running>>

----------------------------------------------------------------------------
\* Completion Handler.

\* api.py upload_complete_webhook.
api_upload_complete_webhook(u, j, success, file_path, execute_ok) ==
    /\ app = "api"
    /\ Request
    /\ (Owned(u, j) /\ success) => Len(tasks) < MaxTasks
    /\ UNCHANGED <<app, storage, issued, signed>>
    /\ IF ~Owned(u, j)
       THEN /\ response' = api_failure("upload_complete", 404)
            /\ UNCHANGED <<documents, tasks>>
       ELSE IF success
       THEN /\ documents' = api_update_document_status(documents, j, "processing", 0, EmptyLog, NoUrl, execute_ok)
            /\ tasks' = api_create_task(j, file_path, "upload_complete")
            /\ response' = [op |-> "upload_complete", code |-> 200, success |-> TRUE]
       ELSE /\ documents' = api_update_document_status(documents, j, "failed", 0,
                                                       [error |-> ApiUploadFailedMsg], NoUrl, execute_ok)
            /\ tasks' = tasks
            /\ response' = [op |-> "upload_complete", code |-> 200, success |-> FALSE]

\* main.py upload_complete_webhook.
main_upload_complete_webhook(u, j, success, execute_ok) ==
    /\ app = "main"
    /\ Request
    /\ (Owned(u, j) /\ success) => Len(tasks) < MaxTasks
    /\ UNCHANGED <<app, storage, issued, signed>>
    /\ IF ~Owned(u, j)
       THEN /\ response' = main_failure("upload_complete", 404)
            /\ UNCHANGED <<documents, tasks>>
       ELSE IF success
       THEN /\ documents' = main_update_document_status(documents, j, "processing", 0, EmptyLog, execute_ok)
            /\ tasks' = main_create_task(j, "upload_complete")
            /\ response' = [op |-> "upload_complete", code |-> 200, success |-> TRUE]
       ELSE /\ documents' = main_update_document_status(documents, j, "failed", NoProgress,
                                                        [error |-> MainUploadFailedMsg], execute_ok)
            /\ tasks' = tasks
            /\ response' = [op |-> "upload_complete", code |-> 200, success |-> FALSE]

\* app/api/upload-complete.py upload_complete_webhook: the same handler of the
\* simulated deployment with more logging.
v0_upload_complete_webhook(u, j, success, execute_ok) ==
    /\ app = "main"
    /\ Request
    /\ (Owned(u, j) /\ success) => Len(tasks) < MaxTasks
    /\ UNCHANGED <<app, storage, issued, signed>>
    /\ IF ~Owned(u, j)
       THEN /\ response' = main_failure("upload_complete", 404)
            /\ UNCHANGED <<documents, tasks>>
       ELSE IF success
       THEN /\ documents' = main_update_document_status(documents, j, "processing", 0, EmptyLog, execute_ok)
            /\ tasks' = main_create_task(j, "upload_complete")
            /\ response' = [op |-> "upload_complete", code |-> 200, success |-> TRUE]
       ELSE /\ documents' = main_update_document_status(documents, j, "failed", NoProgress,
                                                        [error |-> MainUploadFailedMsg], execute_ok)
            /\ tasks' = tasks
            /\ response' = [op |-> "upload_complete", code |-> 200, success |-> FALSE]

----------------------------------------------------------------------------
\* Processing Pipeline, real strategy: api.py process_document_task.  A task
\* is at pc "fetch", "p10", "p30", "transform", "p90", "store", "finalize" or
\* "done"; "done" is past the finally clause (shutil.rmtree(temp_dir)).  It
\* gives up the loop only at "transform".

\* Task i moves to pc; a task that has ended keeps no local but its job_id.
SetPc(i, pc) ==
    IF pc = "done"
    THEN [tasks EXCEPT ![i].pc = pc, ![i].file_path = NoUrl]
    ELSE [tasks EXCEPT ![i].pc = pc]

AtPc(i, pc) == i \in 1 .. Len(tasks) /\ tasks[i].pc = pc

\* The loop resumes task i, which was waiting at pc.
Resumes(i, pc) == AtPc(i, pc) /\ running = 0

\* Task i holds the loop and is at pc.
Continues(i, pc) == AtPc(i, pc) /\ running = i

\* temp_dir = tempfile.mkdtemp(): temp_dir of a task tells whether its
\* directory exists.
Mkdtemp(i) == [tasks EXCEPT ![i].temp_dir = TRUE]

\* The task ends with its workspace still on disk: process_document_task as it
\* would be without its finally clause.
api_task_finally_absent(ts, i) == [ts EXCEPT ![i].pc = "done", ![i].file_path = NoUrl]

\* finally: shutil.rmtree(temp_dir); the task, whose record is ts[i], ends.
api_task_finally(ts, i) ==
    [ts EXCEPT ![i].pc = "done", ![i].file_path = NoUrl, ![i].temp_dir = FALSE]

\* except Exception as e: one write of status failed with progress 0 and the
\* classified message, then the finally clause; the task ends.
api_task_except(ts, i, error_msg, execute_ok) ==
    /\ documents' = api_update_document_status(documents, tasks[i].job, "failed", 0,
                                               [error |-> ClassifyError(error_msg)], NoUrl, execute_ok)
    /\ tasks' = api_task_finally(ts, i)
    /\ running' = 0

\* temp_dir = tempfile.mkdtemp(), then
\* 1. supabase.storage.from_("documents").download(relative_path)
api_task_fetch(i, execute_ok) ==
    /\ app = "api"
    /\ Resumes(i, "fetch")
    /\ IF tasks[i].file_path \in storage
       THEN /\ tasks' = [Mkdtemp(i) EXCEPT ![i].pc = "p10"]
            /\ documents' = documents
            /\ running' = i
       ELSE api_task_except(Mkdtemp(i), i, ObjectNotFoundText, execute_ok)
    /\ UNCHANGED <<app, storage, issued, signed, requests>>
    /\ response' = NoResponse

\* 2. update_document_status(job_id, "processing", 10, {"message": ...})
api_task_progress10(i, execute_ok) ==
    /\ app = "api"
    /\ Continues(i, "p10")
    /\ documents' = api_update_document_status(documents, tasks[i].job, "processing", 10,
                                               [message |-> "initializing"], NoUrl, execute_ok)
    /\ tasks' = SetPc(i, "p30")
    /\ UNCHANGED <<app, storage, issued, signed, requests, running>>
    /\ response' = NoResponse

\* Step 4 as it would be if it reported the milestone of step 5 before the
\* formatter has run.
api_task_progress30_reports_90(i, execute_ok) ==
    /\ app = "api"
    /\ Continues(i, "p30")
    /\ documents' = api_update_document_status(documents, tasks[i].job, "processing", 90,
                                               [message |-> "uploading"], NoUrl, execute_ok)
    /\ tasks' = SetPc(i, "transform")
    /\ running' = 0
    /\ UNCHANGED <<app, storage, issued, signed, requests>>
    /\ response' = NoResponse

\* 4. update_document_status(job_id, "processing", 30, {"message": ...}), then
\*    await loop.run_in_executor(...): the task gives up the loop.
api_task_progress30(i, execute_ok) ==
    /\ app = "api"
    /\ Continues(i, "p30")
    /\ documents' = api_update_document_status(documents, tasks[i].job, "processing", 30,
                                               [message |-> "analyzing"], NoUrl, execute_ok)
    /\ tasks' = SetPc(i, "transform")
    /\ running' = 0
    /\ UNCHANGED <<app, storage, issued, signed, requests>>
    /\ response' = NoResponse

\* formatter.format_document returns; the task is resumed.
api_task_transform(i) ==
    /\ app = "api"
    /\ Resumes(i, "transform")
    /\ tasks' = SetPc(i, "p90")
    /\ running' = i
    /\ UNCHANGED <<app, documents, storage, issued, signed, requests>>
    /\ response' = NoResponse

\* formatter.format_document raises; error_msg = str(e).
api_task_transform_fails(i, error_msg, execute_ok) ==
    /\ app = "api"
    /\ Resumes(i, "transform")
    /\ api_task_except(tasks, i, error_msg, execute_ok)
    /\ UNCHANGED <<app, storage, issued, signed, requests>>
    /\ response' = NoResponse

\* 5. update_document_status(job_id, "processing", 90, {"message": ...})
api_task_progress90(i, execute_ok) ==
    /\ app = "api"
    /\ Continues(i, "p90")
    /\ documents' = api_update_document_status(documents, tasks[i].job, "processing", 90,
                                               [message |-> "uploading"], NoUrl, execute_ok)
    /\ tasks' = SetPc(i, "store")
    /\ UNCHANGED <<app, storage, issued, signed, requests, running>>
    /\ response' = NoResponse

\* supabase.storage.from_("documents").upload(result_filename, ...)
api_task_store(i) ==
    /\ app = "api"
    /\ Continues(i, "store")
    /\ storage' = storage \cup {ResultPath(tasks[i].job)}
    /\ tasks' = SetPc(i, "finalize")
    /\ UNCHANGED <<app, documents, issued, signed, requests, running>>
    /\ response' = NoResponse

\* The upload raises; error_msg = str(e).
api_task_store_fails(i, error_msg, execute_ok) ==
    /\ app = "api"
    /\ Continues(i, "store")
    /\ api_task_except(tasks, i, error_msg, execute_ok)
    /\ UNCHANGED <<app, storage, issued, signed, requests>>
    /\ response' = NoResponse

\* Step 6 as it would be if the write of status formatted left result_url to
\* a later write.
api_task_finalize_without_url(i, execute_ok) ==
    /\ app = "api"
    /\ Continues(i, "finalize")
    /\ documents' = api_update_document_status(documents, tasks[i].job, "formatted", 100,
                                               [progress |-> 100, message |-> "successful"],
                                               NoUrl, execute_ok)
    /\ tasks' = api_task_finally(tasks, i)
    /\ running' = 0
    /\ UNCHANGED <<app, storage, issued, signed, requests>>
    /\ response' = NoResponse

\* 6. update_document_status(job_id, "formatted", 100, processing_log,
\*    result_url=result_filename, formatting_time=duration); the task ends.
api_task_finalize(i, execute_ok) ==
    /\ app = "api"
    /\ Continues(i, "finalize")
    /\ documents' = api_update_document_status(documents, tasks[i].job, "formatted", 100,
                                               [progress |-> 100, message |-> "successful"],
                                               ResultPath(tasks[i].job), execute_ok)
    /\ tasks' = api_task_finally(tasks, i)
    /\ running' = 0
    /\ UNCHANGED <<app, storage, issued, signed, requests>>
    /\ response' = NoResponse

----------------------------------------------------------------------------
\* Processing Pipeline, simulated strategy: main.py simulate_processing.  A
\* task is at pc "sleep1", "sleep2", "sleep3", "usage" or "done"; it gives up
\* the loop at each asyncio.sleep.

\* update_document_status(job_id, "processing", 25), then asyncio.sleep(2)
main_task_progress25(i, execute_ok) ==
    /\ app = "main"
    /\ Resumes(i, "sleep1")
    /\ documents' = main_update_document_status(documents, tasks[i].job, "processing", 25, EmptyLog, execute_ok)
    /\ tasks' = SetPc(i, "sleep2")
    /\ UNCHANGED <<app, storage, issued, signed, requests, running>>
    /\ response' = NoResponse

\* update_document_status(job_id, "processing", 75), then asyncio.sleep(1)
main_task_progress75(i, execute_ok) ==
    /\ app = "main"
    /\ Resumes(i, "sleep2")
    /\ documents' = main_update_document_status(documents, tasks[i].job, "processing", 75, EmptyLog, execute_ok)
    /\ tasks' = SetPc(i, "sleep3")
    /\ UNCHANGED <<app, storage, issued, signed, requests, running>>
    /\ response' = NoResponse

\* update_document_status(job_id, "formatted", 100, processing_log)
main_task_formatted(i, execute_ok) ==
    /\ app = "main"
    /\ Resumes(i, "sleep3")
    /\ documents' = main_update_document_status(documents, tasks[i].job, "formatted", 100,
                                                [progress |-> 100, word_count |-> 1250], execute_ok)
    /\ tasks' = SetPc(i, "usage")
    /\ running' = i
    /\ UNCHANGED <<app, storage, issued, signed, requests>>
    /\ response' = NoResponse

\* The usage tracking as it would be without its own try/except: its failure
\* reaches the except clause of simulate_processing, which writes failed.
main_task_track_usage_unguarded(i) ==
    /\ app = "main"
    /\ Continues(i, "usage")
    /\ documents' = main_update_document_status(documents, tasks[i].job, "failed", NoProgress,
                                                [error |-> <<"Rate limit exceeded">>], TRUE)
    /\ tasks' = SetPc(i, "done")
    /\ running' = 0
    /\ UNCHANGED <<app, storage, issued, signed, requests>>
    /\ response' = NoResponse

\* The usage tracking after the formatted write; its own try/except swallows
\* every failure, and it writes nothing to the table "documents"; the task ends.
main_task_track_usage(i) ==
    /\ app = "main"
    /\ Continues(i, "usage")
    /\ tasks' = SetPc(i, "done")
    /\ running' = 0
    /\ UNCHANGED <<app, documents, storage, issued, signed, requests>>
    /\ response' = NoResponse

\* except Exception as e: an exception raised out of one of the sleeps is
\* recorded with update_document_status(job_id, "failed",
\* processing_log={"error": str(e)}); the task ends.
main_task_except(i, error_msg, execute_ok) ==
    /\ app = "main"
    /\ running = 0
    /\ i \in 1 .. Len(tasks)
    /\ tasks[i].pc \in {"sleep1", "sleep2", "sleep3"}
    /\ documents' = main_update_document_status(documents, tasks[i].job, "failed", NoProgress,
                                                [error |-> error_msg], execute_ok)
    /\ tasks' = SetPc(i, "done")
    /\ UNCHANGED <<app, storage, issued, signed, requests, running>>
    /\ response' = NoResponse

----------------------------------------------------------------------------
\* Status Reporter.

\* error=processing_log.get("error"): the key is present only when an error is.
ErrorField(doc) ==
    IF HasError(doc) THEN [error |-> doc.processing_log.error] ELSE EmptyLog

\* get_document_status as it would be if a processing_log without a progress
\* were read as a finished job.
api_get_document_status_default_100(u, j) ==
    /\ app = "api"
    /\ Request
    /\ response' =
         IF ~Owned(u, j)
         THEN api_failure("get_status", 404)
         ELSE [ op |-> "get_status", code |-> 200, status |-> documents[j].status,
                progress |-> IF "progress" \in DOMAIN documents[j].processing_log
                             THEN documents[j].processing_log.progress
                             ELSE 100 ] @@ ErrorField(documents[j])
    /\ UNCHANGED <<app, documents, storage, tasks, issued, signed>>

\* api.py get_document_status
api_get_document_status(u, j) ==
    /\ app = "api"
    /\ Request
    /\ response' =
         IF ~Owned(u, j)
         THEN api_failure("get_status", 404)
         ELSE [ op |-> "get_status", code |-> 200, status |-> documents[j].status,
                progress |-> Progress(documents[j]) ] @@ ErrorField(documents[j])
    /\ UNCHANGED <<app, documents, storage, tasks, issued, signed>>

\* main.py get_document_status
main_get_document_status(u, j) ==
    /\ app = "main"
    /\ Request
    /\ response' =
         IF ~Owned(u, j)
         THEN main_failure("get_status", 404)
         ELSE [ op |-> "get_status", code |-> 200, status |-> documents[j].status,
                progress |-> Progress(documents[j]) ] @@ ErrorField(documents[j])
              @@ (IF documents[j].status = "formatted"
                  THEN [result_url |-> <<"download", j>>]
                  ELSE EmptyLog)
    /\ UNCHANGED <<app, documents, storage, tasks, issued, signed>>

----------------------------------------------------------------------------
\* Artifact Retriever.

\* api.py download_document
api_download_document(u, j) ==
    /\ app = "api"
    /\ Request
    /\ response' =
         IF ~Owned(u, j) THEN api_failure("download", 404)
         ELSE IF documents[j].status # "formatted" THEN api_failure("download", 400)
         ELSE IF documents[j].result_url = NoUrl THEN api_failure("download", 404)
         ELSE IF documents[j].result_url \notin storage THEN api_failure("download", 500)
         ELSE [op |-> "download", code |-> 200, success |-> TRUE,
               content |-> documents[j].result_url]
    /\ UNCHANGED <<app, documents, storage, tasks, issued, signed>>

\* main.py download_document: mock content, no storage access.
main_download_document(u, j) ==
    /\ app = "main"
    /\ Request
    /\ response' =
         IF ~Owned(u, j) THEN main_failure("download", 404)
         ELSE IF documents[j].status # "formatted" THEN main_failure("download", 400)
         ELSE [op |-> "download", code |-> 200, success |-> TRUE, content |-> <<"mock", j>>]
    /\ UNCHANGED <<app, documents, storage, tasks, issued, signed>>

----------------------------------------------------------------------------
\* Listing.

\* .limit(50) of list_jobs
ListLimit == 50

\* The first n of the job ids, newest first.  A job id stands for the order of
\* creation: the n-th id generated is n, and its row is inserted by the
\* handler that generated it, so created_at grows with the id.
RECURSIVE Newest(_, _)
Newest(ids, n) ==
    IF ids = {} \/ n = 0
    THEN << >>
    ELSE LET top == CHOOSE j \in ids : \A k \in ids : k <= j
         IN  <<top>> \o Newest(ids \ {top}, n - 1)

\* The query of list_jobs as it would be without .eq("user_id", ...).
select_jobs_any_owner(docs, user_id, limit) == Newest(DOMAIN docs, limit)

\* select("*").eq("user_id", user_id).order("created_at", desc=True).limit(limit):
\* the ids of the rows returned, in the order returned.
select_jobs(docs, user_id, limit) ==
    Newest({ j \in DOMAIN docs : docs[j].user_id = user_id }, limit)

\* api.py list_jobs; a failing query is answered with an empty list.
api_list_jobs(u, execute_ok) ==
    /\ app = "api"
    /\ Request
    /\ LET data == IF execute_ok THEN select_jobs(documents, u, ListLimit) ELSE << >>
       IN  response' = [op |-> "list_jobs", code |-> 200, jobs |-> data, total |-> Len(data)]
    /\ UNCHANGED <<app, documents, storage, tasks, issued, signed>>

\* main.py list_jobs: list(jobs_storage.values()), and nothing ever puts a job
\* into jobs_storage.
main_list_jobs ==
    /\ app = "main"
    /\ Request
    /\ response' = [op |-> "list_jobs", code |-> 200, jobs |-> << >>, total |-> 0]
    /\ UNCHANGED <<app, documents, storage, tasks, issued, signed>>

----------------------------------------------------------------------------
\* Deletion.

DeleteFaults == {"none", "remove_input", "remove_result", "delete_record"}

\* documents with the row of j deleted.
DeleteRow(j) == [k \in DOMAIN documents \ {j} |-> documents[k]]

\* delete_job as it would be if it deleted the row before the storage objects.
api_delete_job_record_first(u, j, fault) ==
    /\ app = "api"
    /\ Request
    /\ UNCHANGED <<app, tasks, issued, signed>>
    /\ IF ~Owned(u, j)
       THEN /\ response' = api_failure("delete", 404)
            /\ UNCHANGED <<documents, storage>>
       ELSE IF fault = "delete_record"
       THEN /\ response' = api_failure("delete", 500)
            /\ UNCHANGED <<documents, storage>>
       ELSE IF fault = "remove_input"
       THEN /\ response' = api_failure("delete", 500)
            /\ storage' = storage
            /\ documents' = DeleteRow(j)
       ELSE IF fault = "remove_result" /\ documents[j].result_url # NoUrl
       THEN /\ response' = api_failure("delete", 500)
            /\ storage' = storage \ {documents[j].storage_location}
            /\ documents' = DeleteRow(j)
       ELSE /\ response' = [op |-> "delete", code |-> 200, success |-> TRUE]
            /\ storage' = storage \ {documents[j].storage_location, documents[j].result_url}
            /\ documents' = DeleteRow(j)

\* api.py delete_job: ownership lookup, removal of the input object, removal of
\* the result object when result_url is set, then deletion of the row; fault
\* names the collaborator call that raises, if any.
api_delete_job(u, j, fault) ==
    /\ app = "api"
    /\ Request
    /\ UNCHANGED <<app, tasks, issued, signed>>
    /\ IF ~Owned(u, j)
       THEN /\ response' = api_failure("delete", 404)
            /\ UNCHANGED <<documents, storage>>
       ELSE IF fault = "remove_input"
       THEN /\ response' = api_failure("delete", 500)
            /\ UNCHANGED <<documents, storage>>
       ELSE IF fault = "remove_result" /\ documents[j].result_url # NoUrl
       THEN /\ response' = api_failure("delete", 500)
            /\ storage' = storage \ {documents[j].storage_location}
            /\ documents' = documents
       ELSE IF fault = "delete_record"
       THEN /\ response' = api_failure("delete", 500)
            /\ storage' = storage \ {documents[j].storage_location, documents[j].result_url}
            /\ documents' = documents
       ELSE /\ response' = [op |-> "delete", code |-> 200, success |-> TRUE]
            /\ storage' = storage \ {documents[j].storage_location, documents[j].result_url}
            /\ documents' = DeleteRow(j)

\* main.py delete_job: no caller identity, looks only into jobs_storage.
main_delete_job(j) ==
    /\ app = "main"
    /\ Request
    /\ j \notin jobs_storage
    /\ response' = main_failure("delete", 404)
    /\ UNCHANGED <<app, documents, storage, tasks, issued, signed>>

----------------------------------------------------------------------------
\* Legacy process endpoint.

\* process_document as it would be if a failing insert were only logged, the
\* way its failing upload is: the task is started with no record behind it.
api_process_document_insert_unchecked(u, has_content, upload_ok, insert_ok) ==
    /\ app = "api"
    /\ Request
    /\ issued < MaxJobs
    /\ has_content => Len(tasks) < MaxTasks
    /\ storage' = IF has_content /\ upload_ok
                  THEN storage \cup {LegacyPath(FreshJobId)}
                  ELSE storage
    /\ UNCHANGED <<app, signed>>
    /\ issued' = issued + 1
    /\ documents' = IF insert_ok
                    THEN documents @@ (FreshJobId :> NewDocument(u, LegacyPath(FreshJobId)))
                    ELSE documents
    /\ tasks' = IF has_content
                THEN api_create_task(FreshJobId, LegacyPath(FreshJobId), "process")
                ELSE tasks
    /\ response' = [ op |-> "process", code |-> 200, success |-> TRUE,
                     job_id |-> FreshJobId,
                     status |-> IF has_content THEN "processing" ELSE "draft" ]

\* api.py process_document: uploads the content (a failure is only logged),
\* inserts the record, and starts a task when there was content.
api_process_document(u, has_content, upload_ok, insert_ok) ==
    /\ app = "api"
    /\ Request
    /\ issued < MaxJobs
    /\ has_content => Len(tasks) < MaxTasks
    /\ storage' = IF has_content /\ upload_ok
                  THEN storage \cup {LegacyPath(FreshJobId)}
                  ELSE storage
    /\ UNCHANGED <<app, signed>>
    /\ issued' = issued + 1
    /\ IF ~insert_ok
       THEN /\ response' = api_failure("process", 500)
            /\ UNCHANGED <<documents, tasks>>
       ELSE /\ documents' = documents @@ (FreshJobId :> NewDocument(u, LegacyPath(FreshJobId)))
            /\ tasks' = IF has_content
                        THEN api_create_task(FreshJobId, LegacyPath(FreshJobId), "process")
                        ELSE tasks
            /\ response' = [ op |-> "process", code |-> 200, success |-> TRUE,
                             job_id |-> FreshJobId,
                             status |-> IF has_content THEN "processing" ELSE "draft" ]

\* main.py process_document: inserts the record and always starts a task.
main_process_document(u, insert_ok) ==
    /\ app = "main"
    /\ Request
    /\ issued < MaxJobs
    /\ Len(tasks) < MaxTasks
    /\ issued' = issued + 1
    /\ UNCHANGED <<app, storage, signed>>
    /\ IF ~insert_ok
       THEN /\ response' = main_failure("process", 500)
            /\ UNCHANGED <<documents, tasks>>
       ELSE /\ documents' = documents @@ (FreshJobId :> NewDocument(u, LegacyPath(FreshJobId)))
            /\ tasks' = main_create_task(FreshJobId, "process")
            /\ response' = [ op |-> "process", code |-> 200, success |-> TRUE,
                             job_id |-> FreshJobId, status |-> "draft" ]

----------------------------------------------------------------------------
Next ==
    \/ \E u \in Creators, fs \in FileSizes, url_ok \in BOOLEAN, insert_ok \in BOOLEAN :
           api_create_upload_url(u, fs, url_ok, insert_ok)
    \/ \E u \in Creators, fs \in FileSizes, url_ok \in BOOLEAN, insert_ok \in BOOLEAN :
           main_create_upload_url(u, fs, url_ok, insert_ok)
    \/ \E j \in JobIds : client_upload(j)
    \/ \E u \in Users, j \in JobIds, success \in BOOLEAN, fp \in ClientPaths, ok \in BOOLEAN :
           api_upload_complete_webhook(u, j, success, fp, ok)
    \/ \E u \in Users, j \in JobIds, success \in BOOLEAN, ok \in BOOLEAN :
           main_upload_complete_webhook(u, j, success, ok)
    \/ \E u \in Users, j \in JobIds, success \in BOOLEAN, ok \in BOOLEAN :
           v0_upload_complete_webhook(u, j, success, ok)
    \/ \E i \in 1 .. MaxTasks, ok \in BOOLEAN : api_task_fetch(i, ok)
    \/ \E i \in 1 .. MaxTasks, ok \in BOOLEAN : api_task_progress10(i, ok)
    \/ \E i \in 1 .. MaxTasks, ok \in BOOLEAN : api_task_progress30(i, ok)
    \/ \E i \in 1 .. MaxTasks : api_task_transform(i)
    \/ \E i \in 1 .. MaxTasks, e \in RawFailures, ok \in BOOLEAN : api_task_transform_fails(i, e, ok)
    \/ \E i \in 1 .. MaxTasks, ok \in BOOLEAN : api_task_progress90(i, ok)
    \/ \E i \in 1 .. MaxTasks : api_task_store(i)
    \/ \E i \in 1 .. MaxTasks, e \in RawFailures, ok \in BOOLEAN : api_task_store_fails(i, e, ok)
    \/ \E i \in 1 .. MaxTasks, ok \in BOOLEAN : api_task_finalize(i, ok)
    \/ \E i \in 1 .. MaxTasks, ok \in BOOLEAN : main_task_progress25(i, ok)
    \/ \E i \in 1 .. MaxTasks, ok \in BOOLEAN : main_task_progress75(i, ok)
    \/ \E i \in 1 .. MaxTasks, ok \in BOOLEAN : main_task_formatted(i, ok)
    \/ \E i \in 1 .. MaxTasks : main_task_track_usage(i)
    \/ \E i \in 1 .. MaxTasks, e \in RawFailures, ok \in BOOLEAN : main_task_except(i, e, ok)
    \/ \E u \in Users, j \in JobIds : api_get_document_status(u, j)
    \/ \E u \in Users, j \in JobIds : main_get_document_status(u, j)
    \/ \E u \in Users, j \in JobIds : api_download_document(u, j)
    \/ \E u \in Users, j \in JobIds : main_download_document(u, j)
    \/ \E u \in Users, j \in JobIds, fault \in DeleteFaults : api_delete_job(u, j, fault)
    \/ \E j \in JobIds : main_delete_job(j)
    \/ \E u \in Creators, has_content \in BOOLEAN, upload_ok \in BOOLEAN, insert_ok \in BOOLEAN :
           api_process_document(u, has_content, upload_ok, insert_ok)
    \/ \E u \in Creators, insert_ok \in BOOLEAN : main_process_document(u, insert_ok)
    \/ \E u \in Users, ok \in BOOLEAN : api_list_jobs(u, ok)
    \/ main_list_jobs

Spec == Init /\ [][Next]_vars

\* The listing over tables larger than its limit.  A table is a few rows of
\* any owners, then a block of rows of user "A", then a few rows of any owners,
\* in the order of creation.
OwnerRuns == UNION { [1 .. n -> Users] : n \in 0 .. 2 }

BlockSizes == {0, ListLimit - 1, ListLimit, ListLimit + 1}

TableOf(first, block, last) ==
    LET owners == first \o [n \in 1 .. block |-> "A"] \o last
    IN  [j \in 1 .. Len(owners) |-> NewDocument(owners[j], InputPath(j))]

ListInit ==
    /\ app \in Apps
    /\ \E first \in OwnerRuns, block \in BlockSizes, last \in OwnerRuns :
           /\ documents = TableOf(first, block, last)
           /\ issued = Len(first) + block + Len(last)
    /\ storage = {}
    /\ tasks = << >>
    /\ signed = {}
    /\ requests = 0
    /\ running = 0
    /\ response = NoResponse

ListNext ==
    \/ \E u \in Users, ok \in BOOLEAN : api_list_jobs(u, ok)
    \/ main_list_jobs

ListSpec == ListInit /\ [][ListNext]_vars

\* The real pipeline at the point where the transformation engine has failed:
\* job 1 was created and uploaded, upload-complete started its run, the run
\* wrote progress 30 and awaits the executor, whose future holds the exception
\* raised by format_document; raised is its text str(e).
ClassifierInit ==
    /\ app = "api"
    /\ documents = (1 :> [NewDocument("A", InputPath(1)) EXCEPT
                              !.status = "processing",
                              !.processing_log = [progress |-> 30, message |-> "analyzing"]])
    /\ storage = {InputPath(1)}
    /\ \E e \in FailureTexts :
           tasks = << [job |-> 1, file_path |-> InputPath(1), origin |-> "upload_complete",
                       pc |-> "transform", temp_dir |-> TRUE, raised |-> e] >>
    /\ issued = 1
    /\ signed = {1}
    /\ requests = 2
    /\ running = 0
    /\ response = NoResponse

\* The loop resumes the run with the exception: the except branch classifies it.
ClassifierNext ==
    \E ok \in BOOLEAN : api_task_transform_fails(1, tasks[1].raised, ok)

ClassifierSpec == ClassifierInit /\ [][ClassifierNext]_vars

\* A step of background task i: of process_document_task under api.py, of
\* simulate_processing under main.py.
TaskStep(i) ==
    \/ \E ok \in BOOLEAN :
           \/ api_task_fetch(i, ok)
           \/ api_task_progress10(i, ok)
           \/ api_task_progress30(i, ok)
           \/ api_task_progress90(i, ok)
           \/ api_task_finalize(i, ok)
           \/ main_task_progress25(i, ok)
           \/ main_task_progress75(i, ok)
           \/ main_task_formatted(i, ok)
           \/ \E e \in RawFailures :
                  \/ api_task_transform_fails(i, e, ok)
                  \/ api_task_store_fails(i, e, ok)
                  \/ main_task_except(i, e, ok)
    \/ api_task_transform(i)
    \/ api_task_store(i)
    \/ main_task_track_usage(i)

\* The event loop runs every task that is ready, and every collaborator call
\* and every sleep returns: no task is left waiting forever.
FairSpec == Spec /\ \A i \in 1 .. MaxTasks : WF_vars(TaskStep(i))

----------------------------------------------------------------------------
\* Vocabulary of the properties.

\* The tasks started for job j.
RunsOf(j) == { i \in 1 .. Len(tasks) : tasks[i].job = j }

\* The tasks started for job j that have not ended.
ActiveRunsOf(j) == { i \in RunsOf(j) : tasks[i].pc # "done" }

\* Job j has a record before and after the step.
Remains(j) == j \in DOMAIN documents /\ j \in DOMAIN documents'

\* The step is an upload-complete call of user u for job j.
UploadCompleteStep(u, j) ==
    \/ \E success \in BOOLEAN, fp \in ClientPaths, ok \in BOOLEAN :
           api_upload_complete_webhook(u, j, success, fp, ok)
    \/ \E success \in BOOLEAN, ok \in BOOLEAN : main_upload_complete_webhook(u, j, success, ok)
    \/ \E success \in BOOLEAN, ok \in BOOLEAN : v0_upload_complete_webhook(u, j, success, ok)

\* The step is a delete-job call of user u for job j.
DeleteStep(u, j) ==
    \/ \E fault \in DeleteFaults : api_delete_job(u, j, fault)
    \/ main_delete_job(j)

\* The step is a get-status or a get-artifact call of user u for job j.
ReadStep(u, j) ==
    \/ api_get_document_status(u, j)
    \/ main_get_document_status(u, j)
    \/ api_download_document(u, j)
    \/ main_download_document(u, j)

\* Job j belongs to a user other than u.
Foreign(u, j) == j \in DOMAIN documents /\ documents[j].user_id # u

\* The step is a create-upload call of user u with these inputs.
CreateUploadStep(u, file_size, url_ok, insert_ok) ==
    \/ api_create_upload_url(u, file_size, url_ok, insert_ok)
    \/ main_create_upload_url(u, file_size, url_ok, insert_ok)

\* The step is an upload-complete call of user u for job j with this success
\* value, whose write to the table, if it makes one, is executed.
RecordedUploadCompleteStep(u, j, success) ==
    \/ \E fp \in ClientPaths : api_upload_complete_webhook(u, j, success, fp, TRUE)
    \/ main_upload_complete_webhook(u, j, success, TRUE)
    \/ v0_upload_complete_webhook(u, j, success, TRUE)

\* The size is one create-upload has to reject: negative or above the ceiling.
Rejectable(file_size) ==
    file_size # <<>> /\ (file_size[1] < 0 \/ file_size[1] > MaxFileSize)

\* The progress values the real pipeline writes after the start of a run.
RealMilestones == {10, 30, 90, 100}

\* The progress values the simulated pipeline writes after the start of a run.
SimulatedMilestones == {25, 75, 100}

\* The failure text signals a malformed response of the engine.
SignalsMalformed(text) ==
    Contains(text, "JSON Parsing Error") \/ Contains(text, "Unexpected end of input")

\* The failure text signals a dropped connection to the engine.
SignalsConnectionLost(text) ==
    Contains(text, "peer closed connection") \/ Contains(text, "incomplete chunked read")

\* The step is a get-status call of user u for job j.
StatusStep(u, j) == api_get_document_status(u, j) \/ main_get_document_status(u, j)

\* The step is a get-artifact call of user u for job j.
DownloadStep(u, j) == api_download_document(u, j) \/ main_download_document(u, j)

\* The step is run i failing at its fetch, in the engine, at its store or in
\* one of its sleeps, with the write of the failure executed.
RunFails(i) ==
    \/ api_task_fetch(i, TRUE) /\ tasks[i].file_path \notin storage
    \/ \E e \in RawFailures :
           \/ api_task_transform_fails(i, e, TRUE)
           \/ api_task_store_fails(i, e, TRUE)
           \/ main_task_except(i, e, TRUE)

\* The position of a step of process_document_task in its body.
Rank(pc) ==
    CASE pc = "fetch" -> 0
      [] pc = "p10" -> 1
      [] pc = "p30" -> 2
      [] pc = "transform" -> 3
      [] pc = "p90" -> 4
      [] pc = "store" -> 5
      [] pc = "finalize" -> 6
      [] OTHER -> 7

\* Run i is the only run of its job and the job is on record.
OnlyRun(i) == tasks[i].job \in DOMAIN documents /\ RunsOf(tasks[i].job) = {i}

\* The step is a progress report of run i whose write raises.
ReportFails(i) ==
    \/ api_task_progress10(i, FALSE)
    \/ api_task_progress30(i, FALSE)
    \/ api_task_progress90(i, FALSE)

\* The step is the download of run i failing, with the write of the failure
\* executed.
FetchFails(i) == api_task_fetch(i, TRUE) /\ tasks[i].file_path \notin storage

\* Job id j was generated and has no record: the record was deleted, or its
\* insert failed.
Gone(j) == j <= issued /\ j \notin DOMAIN documents

\* The step is a call of the legacy process operation by user u, whose insert
\* succeeds or not as insert_ok tells.
ProcessStep(u, insert_ok) ==
    \/ \E has_content \in BOOLEAN, upload_ok \in BOOLEAN :
           api_process_document(u, has_content, upload_ok, insert_ok)
    \/ main_process_document(u, insert_ok)

\* The step starts a run.
StartsRun == Len(tasks') > Len(tasks)

\* The fault makes a storage removal of delete_job for this row raise.
RemovalFails(doc, fault) ==
    \/ fault = "remove_input"
    \/ fault = "remove_result" /\ doc.result_url # NoUrl

\* The positions of a task past its write of formatted or failed.
PastTerminalWrite == {"usage", "done"}

\* The step is a list-jobs call of user u.
ListStep(u) == main_list_jobs \/ \E ok \in BOOLEAN : api_list_jobs(u, ok)

\* The values of the column status.
Statuses == {"draft", "processing", "formatted", "failed"}

\* Job j had a run and has no record: an owner's delete-job removed the record.
Deleted(j) == RunsOf(j) # {} /\ j \notin DOMAIN documents

\* The last step answered a request op with an error carrying this detail.
FailedWith(op, detail) ==
    /\ response.op = op
    /\ "detail" \in DOMAIN response
    /\ response.detail = detail

----------------------------------------------------------------------------
\* C1: the status of a job changes only along draft->processing,
\* processing->processing, processing->formatted and processing->failed.  The
\* formula is the clause the claim singles out: a job that is formatted or
\* failed never changes status again.
C1_TerminalStatusFinal ==
    [][\A j \in JobIds :
          (Remains(j) /\ documents[j].status \in {"formatted", "failed"})
              => documents'[j].status = documents[j].status]_vars

\* C2: the upload-complete calls with success=true made for one job start at
\* most one pipeline run for it.
C2_OneRunPerCompletedJob ==
    \A j \in JobIds :
        Cardinality({ i \in RunsOf(j) : tasks[i].origin = "upload_complete" }) <= 1

\* C3: an upload-complete call of the owner for a job that is processing,
\* formatted or failed returns success=false, leaves the Job Record as it is
\* and starts no pipeline run.
C3_RepeatedCompletionIsNoOp ==
    [][\A u \in Users, j \in JobIds :
          (/\ Owned(u, j)
           /\ documents[j].status \in {"processing", "formatted", "failed"}
           /\ UploadCompleteStep(u, j))
              => (/\ response'.success = FALSE
                  /\ documents' = documents
                  /\ tasks' = tasks)]_vars

\* C4: at most one pipeline run is active for a job id.
C4_OneActiveRunPerJob ==
    \A j \in JobIds : Cardinality(ActiveRunsOf(j)) <= 1

\* C5: while a run is under way the progress on the Job Record never
\* decreases.  The formula is the claim for the writes of the run itself, on a
\* job that has had no other run: no step of the run lowers the progress.
C5_RunNeverLowersProgress ==
    [][\A i \in 1 .. Len(tasks) :
          (/\ tasks[i].pc # "done"
           /\ RunsOf(tasks[i].job) = {i}
           /\ Len(tasks') = Len(tasks)
           /\ tasks'[i] # tasks[i]
           /\ Remains(tasks[i].job))
              => Progress(documents'[tasks[i].job]) >= Progress(documents[tasks[i].job])]_vars

\* C6: the progress of a Job Record is 100 exactly when its status is
\* formatted.
C6_Progress100IffFormatted ==
    \A j \in DOMAIN documents :
        (Progress(documents[j]) = 100) <=> (documents[j].status = "formatted")

\* C7: the result_url of a Job Record is set exactly when its status is
\* formatted.
C7_ResultUrlIffFormatted ==
    \A j \in DOMAIN documents :
        (documents[j].result_url # NoUrl) <=> (documents[j].status = "formatted")

\* C8: the processing_log of a Job Record carries an error exactly when its
\* status is failed.
C8_ErrorIffFailed ==
    \A j \in DOMAIN documents :
        HasError(documents[j]) <=> (documents[j].status = "failed")

\* C9: get-status, get-artifact, upload-complete and delete-job called by a
\* user for a job of another user answer 404 and change neither the table nor
\* the bucket.
C9_ForeignCallerGetsNotFound ==
    [][\A u \in Users, j \in JobIds :
          (Foreign(u, j) /\ (ReadStep(u, j) \/ UploadCompleteStep(u, j) \/ DeleteStep(u, j)))
              => (/\ response'.code = 404
                  /\ documents' = documents
                  /\ storage' = storage)]_vars

\* C10: a delete-job call of the owner for a job that is processing, with a run
\* of the job still active, removes no object of the job from the bucket.
C10_DeleteSparesActiveRun ==
    [][\A u \in Users, j \in JobIds :
          (/\ Owned(u, j)
           /\ documents[j].status = "processing"
           /\ ActiveRunsOf(j) # {}
           /\ DeleteStep(u, j))
              => \A h \in {documents[j].storage_location, ResultPath(j)} :
                     h \in storage => h \in storage']_vars

\* C11: after a successful delete-job of the owner no storage object of the job
\* exists, then and later, also when a run of the job was in flight.  The
\* formula is the claim for the output object of a job that had a run: once its
\* record is deleted there is no object formatted/{job_id}.docx.
C11_DeletedJobLeavesNoOutput ==
    \A j \in JobIds : Deleted(j) => ResultPath(j) \notin storage

\* C12: when create-upload returns a credential, the record of the returned job
\* id exists in draft, owned by the caller, with the returned handle as its
\* storage_location, and no pipeline run was started.
C12_CredentialImpliesDraftRecord ==
    [][\A u \in Users, fs \in FileSizes, url_ok \in BOOLEAN, insert_ok \in BOOLEAN :
          (CreateUploadStep(u, fs, url_ok, insert_ok) /\ response'.code = 200)
              => (/\ response'.job_id \in DOMAIN documents'
                  /\ documents'[response'.job_id].status = "draft"
                  /\ documents'[response'.job_id].user_id = u
                  /\ documents'[response'.job_id].storage_location = response'.file_path
                  /\ tasks' = tasks)]_vars

\* A create-upload call has just returned a credential.
C12_CredentialReturned ==
    /\ response.op = "create_upload"
    /\ response.code = 200
    /\ response.file_path = InputPath(response.job_id)

\* C13: when the signed upload URL cannot be issued, create-upload fails and
\* the table of Job Records is unchanged.
C13_NoCredentialNoRecord ==
    [][\A u \in Users, fs \in FileSizes, insert_ok \in BOOLEAN :
          CreateUploadStep(u, fs, FALSE, insert_ok)
              => (response'.code # 200 /\ documents' = documents)]_vars

\* A create-upload call has just failed on the signed upload URL, with a job
\* of an earlier call on record.
C13_CredentialRefused ==
    /\ FailedWith("create_upload", UploadUrlFailedText)
    /\ DOMAIN documents # {}

\* C14: create-upload with a size above the ceiling or a negative size is
\* rejected and creates no record.
C14_SizeLimitEnforced ==
    [][\A u \in Users, fs \in FileSizes, url_ok \in BOOLEAN, insert_ok \in BOOLEAN :
          (Rejectable(fs) /\ CreateUploadStep(u, fs, url_ok, insert_ok))
              => (response'.code # 200 /\ documents' = documents)]_vars

\* C15: upload-complete with success=false on an owned job sets the status to
\* failed, records an error on the Job Record and starts no pipeline run.
C15_FailedUploadRecorded ==
    [][\A u \in Users, j \in JobIds :
          (Owned(u, j) /\ RecordedUploadCompleteStep(u, j, FALSE))
              => (/\ documents'[j].status = "failed"
                  /\ HasError(documents'[j])
                  /\ tasks' = tasks)]_vars

\* C16: upload-complete with success=true on an owned draft job is acknowledged
\* only when the record has been set to processing with progress 0 and the job
\* handed to a run.
C16_AcknowledgedOnlyWhenRecorded ==
    [][\A u \in Users, j \in JobIds :
          (/\ Owned(u, j)
           /\ documents[j].status = "draft"
           /\ UploadCompleteStep(u, j)
           /\ response'.code = 200
           /\ response'.success)
              => (/\ documents'[j].status = "processing"
                  /\ Progress(documents'[j]) = 0
                  /\ Len(tasks') = Len(tasks) + 1)]_vars

\* C17: every job on which a run was started is eventually deleted or in a
\* terminal status, formatted or failed.
C17_RunEndsInTerminalStatus ==
    \A j \in JobIds :
        (RunsOf(j) # {})
            ~> (j \notin DOMAIN documents \/ documents[j].status \in {"formatted", "failed"})

\* C18: the real and the simulated pipeline drive the same progress milestones,
\* so a progress a client reads during or after a run does not tell which
\* strategy ran it: every progress written by a run is one both strategies write.
C18_SameMilestones ==
    \A j \in DOMAIN documents :
        Progress(documents[j]) # 0
            => Progress(documents[j]) \in RealMilestones \cap SimulatedMilestones

\* C19: the classifier turns a failure text signalling a malformed response
\* into the malformed-response message, one signalling only a dropped
\* connection into the connection-lost message, and leaves any other text as
\* it is; the malformed-response rule wins when both signals occur.
C19_ClassifierMapping ==
    \A i \in 1 .. Len(tasks) :
        (/\ "raised" \in DOMAIN tasks[i]
         /\ tasks[i].pc = "done"
         /\ HasError(documents[tasks[i].job]))
            => LET e == tasks[i].raised
                   shown == documents[tasks[i].job].processing_log.error
               IN  /\ SignalsMalformed(e) => shown = MalformedMsg
                   /\ (~SignalsMalformed(e) /\ SignalsConnectionLost(e)) => shown = ConnectionLostMsg
                   /\ (~SignalsMalformed(e) /\ ~SignalsConnectionLost(e)) => shown = e

\* A failure text carrying both signals has been classified as malformed.
C19_BothSignalsClassified ==
    /\ Len(tasks) = 1
    /\ "raised" \in DOMAIN tasks[1]
    /\ tasks[1].pc = "done"
    /\ SignalsMalformed(tasks[1].raised)
    /\ SignalsConnectionLost(tasks[1].raised)
    /\ HasError(documents[1])
    /\ documents[1].processing_log.error = MalformedMsg

\* C20: when the engine fails with a malformed-response failure during the
\* only run of a job, the job becomes failed with the malformed-response
\* message and its progress stays at the value written before the failure.
C20_MalformedFailureKeepsProgress ==
    [][\A i \in 1 .. Len(tasks), e \in RawFailures :
          (/\ SignalsMalformed(e)
           /\ RunsOf(tasks[i].job) = {i}
           /\ tasks[i].job \in DOMAIN documents
           /\ api_task_transform_fails(i, e, TRUE))
              => (/\ documents'[tasks[i].job].status = "failed"
                  /\ documents'[tasks[i].job].processing_log.error = MalformedMsg
                  /\ Progress(documents'[tasks[i].job]) = Progress(documents[tasks[i].job]))]_vars

\* C21: get-status changes no Job Record, no storage object and starts no run,
\* and gives the owner the status, the progress (0 when none was written) and
\* the error that the Job Record holds.
C21_GetStatusIsPureRead ==
    [][\A u \in Users, j \in JobIds :
          StatusStep(u, j)
              => (/\ documents' = documents
                  /\ storage' = storage
                  /\ tasks' = tasks
                  /\ Owned(u, j)
                       => LET log == documents[j].processing_log
                          IN  /\ response'.code = 200
                              /\ response'.status = documents[j].status
                              /\ response'.progress =
                                     (IF "progress" \in DOMAIN log THEN log.progress ELSE 0)
                              /\ ("error" \in DOMAIN response') <=> ("error" \in DOMAIN log)
                              /\ ("error" \in DOMAIN log) => response'.error = log.error)]_vars

\* The owner has just read the status of a failed job with its error, and of a
\* draft job as progress 0.
C21_OwnerReadsRecord ==
    /\ response.op = "get_status"
    /\ response.code = 200
    /\ \/ "error" \in DOMAIN response /\ response.status = "failed"
       \/ response.status = "draft" /\ response.progress = 0

\* C22: get-artifact of the owner answers NotReady (400) when the job is not
\* formatted, NotFound (404) when it is formatted without a result_url, and
\* returns content only for a formatted job with a result_url.
C22_DownloadFailureKinds ==
    [][\A u \in Users, j \in JobIds :
          (Owned(u, j) /\ DownloadStep(u, j))
              => (/\ documents[j].status # "formatted" => response'.code = 400
                  /\ (documents[j].status = "formatted" /\ documents[j].result_url = NoUrl)
                       => response'.code = 404
                  /\ response'.code = 200
                       => (documents[j].status = "formatted" /\ documents[j].result_url # NoUrl))]_vars

\* C23: a failure inside a run reaches no caller: the call that starts a run
\* is acknowledged when it starts it, the failing step answers no request and
\* touches no storage object, and it leaves the job failed with an error.
C23_RunFailureOnlyOnRecord ==
    [][/\ Len(tasks') > Len(tasks) => (response'.code = 200 /\ response'.success)
       /\ \A i \in 1 .. Len(tasks) :
              (RunFails(i) /\ tasks[i].job \in DOMAIN documents)
                  => (/\ response' = NoResponse
                      /\ storage' = storage
                      /\ documents'[tasks[i].job].status = "failed"
                      /\ HasError(documents'[tasks[i].job]))]_vars

\* C24: the status of every Job Record is draft, processing, formatted or
\* failed, and its progress is an integer from 0 to 100.
C24_StatusAndProgressInRange ==
    \A j \in DOMAIN documents :
        /\ documents[j].status \in Statuses
        /\ Progress(documents[j]) \in 0 .. 100

\* Records in all four statuses have been seen; here one at progress 90.
C24_RecordAtNinety ==
    \E j \in DOMAIN documents :
        documents[j].status = "processing" /\ Progress(documents[j]) = 90

\* C25: in api.py no Job Record is ever formatted with a progress below 100 or
\* without a result_url, the write of finalize sets the three together, and
\* the result object is in storage when that write happens.
C25_FinalizeIsOneWrite ==
    [][app = "api"
          => (/\ \A j \in DOMAIN documents' :
                    documents'[j].status = "formatted"
                        => (Progress(documents'[j]) = 100 /\ documents'[j].result_url # NoUrl)
              /\ \A i \in 1 .. Len(tasks) :
                    (api_task_finalize(i, TRUE) /\ tasks[i].job \in DOMAIN documents)
                        => (/\ ResultPath(tasks[i].job) \in storage
                            /\ documents[tasks[i].job].status # "formatted"
                                 => (/\ documents'[tasks[i].job].status = "formatted"
                                     /\ Progress(documents'[tasks[i].job]) = 100
                                     /\ documents'[tasks[i].job].result_url
                                            = ResultPath(tasks[i].job))))]_vars

\* A run of api.py has finalized its job: formatted, 100, result_url set and
\* the object stored, the run ended.
C25_Finalized ==
    /\ app = "api"
    /\ \E i \in 1 .. Len(tasks) :
          /\ tasks[i].pc = "done"
          /\ tasks[i].job \in DOMAIN documents
          /\ documents[tasks[i].job].status = "formatted"
          /\ documents[tasks[i].job].result_url # NoUrl
          /\ ResultPath(tasks[i].job) \in storage

\* C26: in api.py a failure at the fetch, at a progress report, in the engine
\* or at the store of the only run of a job ends the run and leaves the job failed with
\* an error.
C26_FailureEndsRunFailed ==
    [][\A i \in 1 .. Len(tasks) :
          (app = "api" /\ OnlyRun(i) /\ (RunFails(i) \/ ReportFails(i)))
              => (/\ tasks'[i].pc = "done"
                  /\ documents'[tasks[i].job].status = "failed"
                  /\ HasError(documents'[tasks[i].job]))]_vars

\* C27: a run that has ended has no workspace.
C27_WorkspaceReleased ==
    \A i \in 1 .. Len(tasks) : tasks[i].pc = "done" => ~tasks[i].temp_dir

\* A run of api.py has ended after its download, and the write that should
\* have recorded its end was lost: the job is still processing.
C27_EndedUnrecorded ==
    /\ app = "api"
    /\ \E i \in 1 .. Len(tasks) :
          /\ tasks[i].pc = "done"
          /\ OnlyRun(i)
          /\ documents[tasks[i].job].status = "processing"
          /\ Progress(documents[tasks[i].job]) >= 10

\* C28: for the only run of a job in api.py, progress 10 is on record only
\* once the download is done, 30 only once 10 was reported, 90 only once the
\* formatter has returned, the result object is stored only once 90 was
\* reported, and 100 only once the run is over its upload.
C28_RealRunOrder ==
    \A i \in 1 .. Len(tasks) :
        (app = "api" /\ RunsOf(tasks[i].job) = {i})
            => LET j == tasks[i].job
                   rank == Rank(tasks[i].pc)
               IN  /\ ResultPath(j) \in storage => rank >= 6
                   /\ j \in DOMAIN documents
                        => (/\ Progress(documents[j]) >= 10 => rank >= 2
                            /\ Progress(documents[j]) >= 30 => rank >= 3
                            /\ Progress(documents[j]) >= 90 => rank >= 5
                            /\ Progress(documents[j]) >= 100 => rank >= 7
                            /\ documents[j].status = "formatted" => rank >= 7)

\* The only run of a job is between its upload and its last write: 90 is on
\* record and the result object is stored.
C28_UploadedAtNinety ==
    /\ app = "api"
    /\ \E i \in 1 .. Len(tasks) :
          /\ tasks[i].pc = "finalize"
          /\ OnlyRun(i)
          /\ Progress(documents[tasks[i].job]) = 90
          /\ ResultPath(tasks[i].job) \in storage

\* C29: when the download of a run fails, the job is failed with a message
\* that is not the storage client's own text, the workspace is released and
\* the run ends without a result object.
C29_FetchFailureClassified ==
    [][\A i \in 1 .. Len(tasks) :
          (FetchFails(i) /\ tasks[i].job \in DOMAIN documents)
              => (/\ documents'[tasks[i].job].status = "failed"
                  /\ HasError(documents'[tasks[i].job])
                  /\ documents'[tasks[i].job].processing_log.error # ObjectNotFoundText
                  /\ tasks'[i].pc = "done"
                  /\ ~tasks'[i].temp_dir
                  /\ storage' = storage)]_vars

\* C30: the result handle is a function of the job id alone: different jobs
\* have different handles, a result_url is the handle of its own job, and a
\* result object exists only once a run of its job has uploaded it.
C30_ResultHandleFromJobId ==
    /\ \A j, k \in JobIds : ResultPath(j) = ResultPath(k) => j = k
    /\ \A j \in DOMAIN documents :
          documents[j].result_url # NoUrl
              => (/\ documents[j].result_url = ResultPath(j)
                  /\ \E i \in RunsOf(j) : Rank(tasks[i].pc) >= 6)
    /\ \A j \in JobIds :
          ResultPath(j) \in storage => \E i \in RunsOf(j) : Rank(tasks[i].pc) >= 6

\* Two jobs are formatted, each with its own result object.
C30_TwoJobsFormatted ==
    \E j, k \in DOMAIN documents :
        /\ j # k
        /\ documents[j].status = "formatted" /\ documents[k].status = "formatted"
        /\ documents[j].result_url = ResultPath(j) /\ documents[k].result_url = ResultPath(k)
        /\ {ResultPath(j), ResultPath(k)} \subseteq storage

\* C31: list-jobs returns at most 50 rows, all owned by the caller, newest
\* first and none twice, and changes nothing.
C31_ListJobsOwnedNewestCapped ==
    [][\A u \in Users :
          ListStep(u)
              => LET jobs == response'.jobs
                 IN  /\ Len(jobs) <= 50
                     /\ response'.total = Len(jobs)
                     /\ \A n \in 1 .. Len(jobs) : Owned(u, jobs[n])
                     /\ \A n, m \in 1 .. Len(jobs) : n < m => jobs[n] > jobs[m]
                     /\ documents' = documents]_vars

\* A caller with more than 50 jobs, the newest of them older than a job of
\* another user, has been given 50 of them.
C31_ListingCapped ==
    /\ response.op = "list_jobs"
    /\ Len(response.jobs) = 50
    /\ Cardinality({ j \in DOMAIN documents : Owned("A", j) }) > 50
    /\ \E j \in DOMAIN documents : ~Owned("A", j) /\ j > response.jobs[1]

\* C32: the object a run of api.py is about to download for its job is the
\* storage_location on the job's record, whatever file_path the caller of
\* upload-complete supplied.
C32_RunReadsRecordedSource ==
    \A i \in 1 .. Len(tasks) :
        (app = "api" /\ tasks[i].pc = "fetch" /\ tasks[i].job \in DOMAIN documents)
            => tasks[i].file_path = documents[tasks[i].job].storage_location

\* C33: a job id whose record is gone never has a record again, whatever a run
\* of that job still writes, and get-status for it answers not-found (404).
C33_DeletedNeverReappears ==
    [][\A j \in JobIds :
          Gone(j)
              => (/\ j \notin DOMAIN documents'
                  /\ \A u \in Users : StatusStep(u, j) => response'.code = 404)]_vars

\* C34: a step of a run leaves the record of every job other than its own as
\* it was.
C34_RunWritesOwnRecordOnly ==
    [][\A i \in 1 .. Len(tasks) :
          TaskStep(i)
              => \A k \in DOMAIN documents :
                    k # tasks[i].job => (k \in DOMAIN documents' /\ documents'[k] = documents[k])]_vars

\* Runs of two jobs are under way together, one having reported more than the
\* other.
C34_TwoRunsInterleaved ==
    \E i, k \in 1 .. Len(tasks) :
        /\ tasks[i].job # tasks[k].job
        /\ tasks[i].pc # "done" /\ tasks[k].pc # "done"
        /\ {tasks[i].job, tasks[k].job} \subseteq DOMAIN documents
        /\ Progress(documents[tasks[i].job]) > Progress(documents[tasks[k].job])
        /\ Progress(documents[tasks[k].job]) > 0

\* C35: a step that starts a run is an upload-complete call by the owner of a
\* job on record, or a process call that has just inserted the caller's
\* record; a process call whose insert fails starts none.
C35_RunStartedForOwnedRecord ==
    [][/\ StartsRun
          => LET j == tasks'[Len(tasks')].job
             IN  /\ j \in DOMAIN documents'
                 /\ \/ \E u \in Users : Owned(u, j) /\ UploadCompleteStep(u, j)
                    \/ \E u \in Users :
                          /\ ProcessStep(u, TRUE)
                          /\ j \notin DOMAIN documents
                          /\ documents'[j].user_id = u
       /\ \A u \in Users, j \in JobIds :
             (UploadCompleteStep(u, j) /\ ~Owned(u, j)) => ~StartsRun
       /\ \A u \in Users : ProcessStep(u, FALSE) => ~StartsRun]_vars

\* Upload-complete of the owner has just started a run for a job on record.
C35_RunStartedByOwner ==
    /\ response.op = "upload_complete"
    /\ response.code = 200
    /\ response.success
    /\ Len(tasks) > 0
    /\ tasks[Len(tasks)].origin = "upload_complete"
    /\ tasks[Len(tasks)].job \in DOMAIN documents

\* C36: delete-job of api.py whose storage removal fails answers with an
\* error and leaves the record as it was; when it removes the record, the
\* input object and the result object are gone from storage.
C36_DeleteRecordAfterObjects ==
    [][\A u \in Users, j \in JobIds, fault \in DeleteFaults :
          (Owned(u, j) /\ api_delete_job(u, j, fault))
              => (/\ RemovalFails(documents[j], fault)
                       => (/\ response'.code >= 400
                           /\ j \in DOMAIN documents'
                           /\ documents'[j] = documents[j])
                  /\ j \notin DOMAIN documents'
                       => (/\ response'.code = 200
                           /\ documents[j].storage_location \notin storage'
                           /\ documents[j].result_url \notin storage'))]_vars

\* A delete-job has failed at the removal of the result object: the job is
\* still on record with its result_url, its input object is gone and its
\* result object is still stored.
C36_ResultRemovalFailed ==
    /\ response.op = "delete"
    /\ response.code = 500
    /\ \E j \in DOMAIN documents :
          /\ documents[j].result_url # NoUrl
          /\ documents[j].result_url \in storage
          /\ documents[j].storage_location \notin storage

\* C37: a run writes nothing to the table once it is past its write of
\* formatted or failed; the step that takes it there writes formatted or
\* failed (or its write is lost), and every earlier step writes processing.
C37_OneTerminalWriteLast ==
    [][\A i \in 1 .. Len(tasks) :
          (TaskStep(i) /\ tasks[i].job \in DOMAIN documents)
              => LET j == tasks[i].job
                 IN  /\ tasks[i].pc \in PastTerminalWrite => documents' = documents
                     /\ (tasks[i].pc \notin PastTerminalWrite /\ tasks'[i].pc \in PastTerminalWrite)
                          => (documents'[j].status \in {"formatted", "failed"}
                              \/ documents' = documents)
                     /\ (tasks[i].pc \notin PastTerminalWrite /\ tasks'[i].pc \notin PastTerminalWrite)
                          => (documents'[j].status = "processing" \/ documents' = documents)]_vars

\* A simulated run has ended after its usage tracking, its job formatted.
C37_SimulatedRunEnded ==
    /\ app = "main"
    /\ \E i \in 1 .. Len(tasks) :
          /\ tasks[i].pc = "done"
          /\ OnlyRun(i)
          /\ documents[tasks[i].job].status = "formatted"

====
